---- MODULE Spec2Model ----
(***************************************************************************)
(* Recurring-task materialization of the Context Task Manager: the browser *)
(* client (script.js: cache, generateRecurringTasks, the recurring-task    *)
(* handlers) and the Express server routes it talks to.                    *)
(*                                                                         *)
(* A Date object is the number of days since 1970-01-01 (all Date objects  *)
(* the modelled code builds are local midnights).  A date string           *)
(* "YYYY-MM-DD" is the tuple <<year, month, day>> with month in 1..12.     *)
(***************************************************************************)
EXTENDS Integers, Sequences, FiniteSets, TLC

----------------------------------------------------------------------------
(* The Date built-in as the code uses it                                   *)

\* Day number of the civil date y-m-d (m in 1..12), proleptic Gregorian.
DaysFromCivil(y, m, d) ==
    LET yy  == IF m <= 2 THEN y - 1 ELSE y
        era == yy \div 400
        yoe == yy - era * 400
        mp  == IF m > 2 THEN m - 3 ELSE m + 9
        doy == (153 * mp + 2) \div 5 + d - 1
        doe == yoe * 365 + yoe \div 4 - yoe \div 100 + doy
    IN  era * 146097 + doe - 719468

\* <<year, month, day>> (month in 1..12) of a day number, in steps: the
\* 400-year era and the day of the era; the year of the era; the day of the
\* year counted from 1 March; the month counted from March.
CivilFromMonth(yoe, era, doy, mp) ==
    <<yoe + era * 400 + (IF mp < 10 THEN 0 ELSE 1),
      IF mp < 10 THEN mp + 3 ELSE mp - 9,
      doy - (153 * mp + 2) \div 5 + 1>>

CivilFromDayOfYear(yoe, era, doy) ==
    CivilFromMonth(yoe, era, doy, (5 * doy + 2) \div 153)

CivilFromYearOfEra(era, doe, yoe) ==
    CivilFromDayOfYear(yoe, era,
                       doe - (365 * yoe + yoe \div 4 - yoe \div 100))

CivilFromEra(era, doe) ==
    CivilFromYearOfEra(era, doe,
        (doe - doe \div 1460 + doe \div 36524 - doe \div 146096) \div 365)

CivilFromShifted(z) == CivilFromEra(z \div 146097, z % 146097)

CivilFromDays(date) == CivilFromShifted(date + 719468)

\* a constructor that takes day 0 for day 1
NewDateFromDayOne(year, monthIndex, day) ==
    DaysFromCivil(year + monthIndex \div 12, (monthIndex % 12) + 1, 1)
      + (IF day = 0 THEN 0 ELSE day - 1)

\* new Date(year, monthIndex, day): monthIndex is 0-based and may overflow
\* into the following years, day may be 0 or exceed the month.
NewDate(year, monthIndex, day) ==
    DaysFromCivil(year + monthIndex \div 12, (monthIndex % 12) + 1, 1) + day - 1

getFullYear(date) == CivilFromDays(date)[1]
\* 0-based month index
getMonth(date) == CivilFromDays(date)[2] - 1
getDate(date) == CivilFromDays(date)[3]
\* weekdays counted from Monday = 0
getDayFromMonday(date) == (date + 3) % 7

\* 0 = Sunday .. 6 = Saturday; day 0 (1970-01-01) was a Thursday
getDay(date) == (date + 4) % 7

\* the month written as its 0-based index
formatDateMonthIndex(date) ==
    <<getFullYear(date), getMonth(date), getDate(date)>>

\* formatDate: Date -> "YYYY-MM-DD"
formatDate(date) == <<getFullYear(date), getMonth(date) + 1, getDate(date)>>

\* parseDate: "YYYY-MM-DD" -> Date
parseDate(dateStr) == NewDate(dateStr[1], dateStr[2] - 1, dateStr[3])

----------------------------------------------------------------------------
(* Defer quick options                                                    *)

\* the days to add without the "|| 7"
daysUntilMondayOrZero(day) == (8 - day) % 7

\* (8 - targetDate.getDay()) % 7 || 7
daysUntilMonday(day) == IF (8 - day) % 7 = 0 THEN 7 ELSE (8 - day) % 7

\* (5 - targetDate.getDay() + 7) % 7
daysUntilFriday(day) == (5 - day + 7) % 7

\* targetDate.setDate(targetDate.getDate() + days)
setDate(date, days) ==
    NewDate(getFullYear(date), getMonth(date), getDate(date) + days)

QuickOptions == {"tomorrow", "next-week", "end-week"}

\* deferToQuickOption: the date string passed to deferTask when now is `now`
deferToQuickOption(option, now) ==
    formatDate(
        CASE option = "tomorrow"  -> setDate(now, 1)
          [] option = "next-week" -> setDate(now, daysUntilMonday(getDay(now)))
          [] option = "end-week"  ->
                IF daysUntilFriday(getDay(now)) = 0
                THEN setDate(setDate(now, daysUntilFriday(getDay(now))), 7)
                ELSE setDate(now, daysUntilFriday(getDay(now)))
          [] OTHER                -> now)

----------------------------------------------------------------------------
(* Rule-to-dates expander                                                  *)

\* frequency.split('-') for the frequency strings the model uses.
FrequencyParts(frequency) ==
    CASE frequency = "daily"             -> <<"daily">>
      [] frequency = "everyday"          -> <<"everyday">>
      [] frequency = "weekly-mon"        -> <<"weekly", "mon">>
      [] frequency = "weekly-tue"        -> <<"weekly", "tue">>
      [] frequency = "weekly-wed"        -> <<"weekly", "wed">>
      [] frequency = "weekly-thu"        -> <<"weekly", "thu">>
      [] frequency = "weekly-fri"        -> <<"weekly", "fri">>
      [] frequency = "weekly-sat"        -> <<"weekly", "sat">>
      [] frequency = "weekly-sun"        -> <<"weekly", "sun">>
      [] frequency = "weekly-xyz"        -> <<"weekly", "xyz">>
      [] frequency = "monthly-1"         -> <<"monthly", "1">>
      [] frequency = "monthly-2"         -> <<"monthly", "2">>
      [] frequency = "monthly-15"        -> <<"monthly", "15">>
      [] frequency = "monthly-last"      -> <<"monthly", "last">>
      [] frequency = "monthly-first-mon" -> <<"monthly", "first", "mon">>
      [] frequency = "monthly-first-fri" -> <<"monthly", "first", "fri">>
      [] OTHER                           -> <<frequency>>

\* frequency.startsWith(prefix + '-')
startsWith(frequency, prefix) ==
    LET parts == FrequencyParts(frequency)
    IN  Len(parts) >= 2 /\ parts[1] = prefix

\* dayMap[...]: -1 stands for undefined (no date has that weekday)
dayMap(name) ==
    CASE name = "mon" -> 1
      [] name = "tue" -> 2
      [] name = "wed" -> 3
      [] name = "thu" -> 4
      [] name = "fri" -> 5
      [] name = "sat" -> 6
      [] name = "sun" -> 0
      [] OTHER        -> -1

\* The days day..last of (year, month) whose weekday is in `weekdays`, as
\* formatted date strings in ascending order (the for-loops of the expander;
\* onlyFirst: the loop breaks at the first match).
RECURSIVE ScanDays(_, _, _, _, _, _)
\* the loop with day < last as its condition
ScanDaysBelowLast(year, month, day, last, weekdays, onlyFirst) ==
    IF day >= last THEN <<>>
    ELSE LET date == NewDate(year, month, day)
         IN  IF getDay(date) \in weekdays
             THEN IF onlyFirst THEN <<formatDate(date)>>
                  ELSE <<formatDate(date)>>
                         \o ScanDays(year, month, day + 1, last, weekdays,
                                     onlyFirst)
             ELSE ScanDays(year, month, day + 1, last, weekdays, onlyFirst)

ScanDays(year, month, day, last, weekdays, onlyFirst) ==
    IF day > last THEN <<>>
    ELSE LET date == NewDate(year, month, day)
         IN  IF getDay(date) \in weekdays
             THEN IF onlyFirst THEN <<formatDate(date)>>
                  ELSE <<formatDate(date)>>
                         \o ScanDays(year, month, day + 1, last, weekdays,
                                     onlyFirst)
             ELSE ScanDays(year, month, day + 1, last, weekdays, onlyFirst)

getDatesForRecurringTask(frequency, targetMonth) ==
    LET year        == getFullYear(targetMonth)
        month       == getMonth(targetMonth)
        daysInMonth == getDate(NewDate(year, month + 1, 0))
    IN  IF frequency = "everyday"
        THEN ScanDays(year, month, 1, daysInMonth, 0..6, FALSE)
        ELSE IF frequency = "daily"
        THEN ScanDays(year, month, 1, daysInMonth, 1..5, FALSE)
        ELSE IF startsWith(frequency, "weekly")
        THEN ScanDays(year, month, 1, daysInMonth,
                      {dayMap(FrequencyParts(frequency)[2])}, FALSE)
        ELSE IF startsWith(frequency, "monthly")
        THEN IF frequency = "monthly-1"
             THEN <<formatDate(NewDate(year, month, 1))>>
             ELSE IF frequency = "monthly-15"
             THEN IF daysInMonth >= 15
                  THEN <<formatDate(NewDate(year, month, 15))>>
                  ELSE <<>>
             ELSE IF frequency = "monthly-last"
             THEN <<formatDate(NewDate(year, month, daysInMonth))>>
             ELSE IF frequency = "monthly-first-mon"
             THEN ScanDays(year, month, 1, 7, {1}, TRUE)
             ELSE IF frequency = "monthly-first-fri"
             THEN ScanDays(year, month, 1, 7, {5}, TRUE)
             ELSE <<>>
        ELSE <<>>

\* task.frequency is missing: the token for the value undefined
Undefined == "<undefined>"

\* The call throws: undefined is neither 'everyday' nor 'daily', and
\* frequency.startsWith('weekly-') on it is a TypeError.
ExpanderThrows(frequency) == frequency = Undefined

\* the frequency codes of the form's select, and two unknown ones
KnownFrequencies ==
    {"daily", "everyday", "weekly-mon", "weekly-tue", "weekly-wed",
     "weekly-thu", "weekly-fri", "weekly-sat", "weekly-sun", "monthly-1",
     "monthly-15", "monthly-last", "monthly-first-mon", "monthly-first-fri"}

ModelFrequencies == KnownFrequencies \cup {"weekly-xyz", "monthly-2"}

\* the years the model's months lie in
ModelYears == 2024..2026

\* getDatesForRecurringTask tabulated over the model's months (evaluated once)
ExpandedDates ==
    [frequency \in ModelFrequencies, year \in ModelYears, month \in 0..11 |->
        getDatesForRecurringTask(frequency, NewDate(year, month, 1))]

----------------------------------------------------------------------------
(* Bounds and input sets                                                   *)

\* browser sessions (pages); each belongs to one user
Sessions == {1, 2}
Users == {1, 2}

\* concurrent generateRecurringTasks invocations per page
MaxRuns == 2
Slots == 1..MaxRuns

\* user gestures and page loads per behaviour
MaxOps == 3
\* times that time passes per behaviour
MaxTicks == 1
\* failing API calls per behaviour
MaxFailures == 1

Contexts == {"work", "personal"}

\* "now" when the behaviour starts: 2025-06-14 (a Saturday, the day before a
\* 15th) and 2025-11-29 (the window crosses into 2026)
Todays == {DaysFromCivil(2025, 6, 14), DaysFromCivil(2025, 11, 29)}

\* how many days pass between two events when time passes
DaySteps == {1, 40}

\* what the user enters in the recurring-task form, and the context shown
RecurringInputs ==
    { [title |-> "Standup", context |-> "work", status |-> "urgent",
       frequency |-> "monthly-15"],
      [title |-> "Review", context |-> "personal", status |-> "today",
       frequency |-> "monthly-last"],
      [title |-> "Standup", context |-> "personal", status |-> "today",
       frequency |-> "monthly-first-fri"] }

\* what the user enters in the add-task form, with the selected date and the
\* context shown
TaskInputs ==
    { [title |-> "Standup", context |-> "work", date |-> <<2025, 7, 15>>],
      [title |-> "Standup", context |-> "personal", date |-> <<2025, 6, 1>>],
      [title |-> "Review", context |-> "personal", date |-> <<2025, 12, 31>>] }

\* rows of recurring_tasks created through POST /api/recurring-tasks before
\* the behaviour starts
ServerRow(id, user, title, context, status, frequency) ==
    [id |-> id, user_id |-> user, title |-> title, context |-> context,
     status |-> status, frequency |-> frequency, active |-> TRUE,
     generatedDates |-> <<>>]

InitialServerDefinitions ==
    { <<>>,
      <<ServerRow(1, 1, "Standup", "work", "urgent", "monthly-15")>>,
      <<[ServerRow(1, 1, "Standup", "work", "urgent", "monthly-1")
            EXCEPT !.active = FALSE],
        ServerRow(2, 1, "Review", "personal", "today", "monthly-last")>> }

FirstFreeId == 3

----------------------------------------------------------------------------
(* State                                                                   *)

VARIABLES
    today,                \* the current day (a Date at local midnight)
    srvTasks,             \* table tasks: a set of rows
    srvRecurring,         \* table recurring_tasks: rows in created_at order
    page,                 \* per session: "closed" or "ready"
    userOf,               \* per session: the authenticated user
    currentContext,       \* per session: the UI's current context
    cachedTasks,          \* per session: the task objects of cachedTasks
    cachedRecurringTasks, \* per session: the array, as a sequence of object ids
    defObj,               \* per session: the definition objects, by id
    runs,                 \* per session and slot: a generateRecurringTasks call
    nextId,               \* generateId(): the next fresh id
    overlap,              \* whether the user acts while a call is in flight
    ops, ticks, failures, \* budgets used so far
    lastEvent,            \* the step just taken (history)
    cleanRun,             \* per session (history): the last call started has
                          \* had no failing API call, and nothing else has
                          \* happened since it started
    removed,              \* (history) a route has deleted rows of tasks
    expandOf,             \* the arguments of a call of the expander on its own
    expanded,             \* and what the call gave
    deferredTo            \* the quick option chosen and the date given to
                          \* deferTask

vars == <<today, srvTasks, srvRecurring, page, userOf, currentContext,
          cachedTasks, cachedRecurringTasks, defObj, runs, nextId, overlap,
          ops, ticks, failures, lastEvent, cleanRun, removed, expandOf,
          expanded, deferredTo>>

server == <<srvTasks, srvRecurring>>
setup == <<userOf, overlap, expandOf, expanded, deferredTo>>
budgets == <<ops, ticks, failures>>

NoTask == [id |-> 0, date |-> <<0, 0, 0>>, context |-> "", title |-> "",
           notes |-> "", status |-> "", completed |-> FALSE,
           createdBy |-> 0, floor |-> 0]

NoBody == [id |-> 0, title |-> "", context |-> "", status |-> "",
           frequency |-> "", active |-> FALSE, generatedDates |-> <<>>]

\* a slot with no call in flight
NoRun == [pc |-> "idle", today |-> 0, monthOffset |-> 0, index |-> 0,
          recurringTask |-> 0, dateIndex |-> 0, task |-> NoTask,
          body |-> NoBody]

\* id: the definition (for deleteTask, the task) concerned; title, date: of
\* the definition or task
NoEvent == [type |-> "none", session |-> 0, id |-> 0, ok |-> TRUE,
            title |-> "", date |-> <<0, 0, 0>>]

\* no call of the expander on its own yet
NoExpansion == [frequency |-> "", year |-> 0, month |-> 0, day |-> 0]
NoDates == [threw |-> FALSE, dates |-> <<>>]

\* no quick option chosen yet
NoDeferral == [option |-> "", date |-> <<0, 0, 0>>]

Range(seq) == {seq[n] : n \in 1..Len(seq)}

\* array.includes(x)
includes(seq, x) == \E n \in 1..Len(seq) : seq[n] = x

\* array.filter(keep), array.splice(n, 1)
RemoveAt(seq, n) == [m \in 1..(Len(seq) - 1) |-> IF m < n THEN seq[m] ELSE seq[m + 1]]

----------------------------------------------------------------------------
(* Server routes (one user's rows only)                                    *)

\* the row a POST /api/tasks stores for the task the client sends
TaskRow(user, task) ==
    [id |-> task.id, user_id |-> user, date |-> task.date,
     context |-> task.context, title |-> task.title, notes |-> task.notes,
     status |-> task.status, completed |-> task.completed]

\* an insert that keeps one row per (user, date, context, title)
PostTaskOncePerTitle(rows, user, task) ==
    IF \E r \in rows : /\ r.user_id = user /\ r.date = task.date
                        /\ r.context = task.context /\ r.title = task.title
    THEN rows
    ELSE rows \cup {TaskRow(user, task)}

\* POST /api/tasks
PostTask(rows, user, task) == rows \cup {TaskRow(user, task)}

\* PUT /api/tasks/:id: UPDATE tasks SET ... WHERE id = ? AND user_id = ?
PutTask(rows, user, id, body) ==
    { IF r.id = id /\ r.user_id = user
      THEN [r EXCEPT !.date = body.date, !.context = body.context,
                     !.title = body.title, !.notes = body.notes,
                     !.status = body.status, !.completed = body.completed]
      ELSE r : r \in rows }

\* DELETE /api/tasks/:id: DELETE FROM tasks WHERE id = ? AND user_id = ?
DeleteTaskRow(rows, user, id) ==
    {r \in rows : ~(r.id = id /\ r.user_id = user)}

\* a load that leaves the cache without the stored tasks
GetNoTasks(rows, user) == {}

\* GET /api/tasks: the user's rows, as the task objects the client caches
GetTasks(rows, user) ==
    { [id |-> r.id, date |-> r.date, context |-> r.context, title |-> r.title,
       notes |-> r.notes, status |-> r.status, completed |-> r.completed,
       createdBy |-> 0, floor |-> 0] : r \in {x \in rows : x.user_id = user} }

\* GET /api/recurring-tasks: the user's rows in created_at order
GetRecurringTasks(rows, user) ==
    SelectSeq(rows, LAMBDA r : r.user_id = user)

\* an UPDATE that does not store the ledger sent with the body
PutWithoutLedger(rows, user, id, body) ==
    [n \in 1..Len(rows) |->
        IF rows[n].id = id /\ rows[n].user_id = user
        THEN [rows[n] EXCEPT !.title = body.title, !.context = body.context,
                             !.status = body.status,
                             !.frequency = body.frequency,
                             !.active = body.active,
                             !.generatedDates = <<>>]
        ELSE rows[n]]

\* PUT /api/recurring-tasks/:id: UPDATE ... WHERE id = ? AND user_id = ?
PutRecurringTask(rows, user, id, body) ==
    [n \in 1..Len(rows) |->
        IF rows[n].id = id /\ rows[n].user_id = user
        THEN [rows[n] EXCEPT !.title = body.title, !.context = body.context,
                             !.status = body.status,
                             !.frequency = body.frequency,
                             !.active = body.active,
                             !.generatedDates = body.generatedDates]
        ELSE rows[n]]

\* a cascade that deletes the title's tasks of every user
DeleteInstancesOfAnyUser(tasks, recurring, user, id, deleteInstances) ==
    LET found == {n \in 1..Len(recurring) :
                     recurring[n].id = id /\ recurring[n].user_id = user}
    IN  IF deleteInstances /\ found # {}
        THEN LET title == recurring[CHOOSE n \in found : TRUE].title
             IN  {t \in tasks : t.title # title}
        ELSE tasks

\* DELETE /api/recurring-tasks/:id?deleteInstances=..., the tasks table
DeleteRecurringInstances(tasks, recurring, user, id, deleteInstances) ==
    LET found == {n \in 1..Len(recurring) :
                     recurring[n].id = id /\ recurring[n].user_id = user}
    IN  IF deleteInstances /\ found # {}
        THEN LET title == recurring[CHOOSE n \in found : TRUE].title
             IN  {t \in tasks : ~(t.user_id = user /\ t.title = title)}
        ELSE tasks

\* DELETE /api/recurring-tasks/:id, the recurring_tasks table
DeleteRecurringRow(recurring, user, id) ==
    SelectSeq(recurring, LAMBDA r : ~(r.id = id /\ r.user_id = user))

----------------------------------------------------------------------------
(* generateRecurringTasks                                                  *)

\* the target month computed without the carry into the next year
TargetMonthSameYear(tdy, monthOffset) ==
    NewDate(getFullYear(tdy), (getMonth(tdy) + monthOffset) % 12, 1)

\* new Date(today.getFullYear(), today.getMonth() + monthOffset, 1)
TargetMonth(tdy, monthOffset) ==
    NewDate(getFullYear(tdy), getMonth(tdy) + monthOffset, 1)

\* the candidate compared with the first day of today's month
IsBeforeThisMonth(dateStr, tdy) ==
    parseDate(dateStr) < NewDate(getFullYear(tdy), getMonth(tdy), 1)

\* taskDate < today: the candidate is in the past
IsPast(dateStr, tdy) == parseDate(dateStr) < tdy

\* recurringTask.generatedDates.includes(dateStr)
AlreadyGenerated(def, dateStr) == includes(def.generatedDates, dateStr)

\* getTasksForDate(dateStr, context)
getTasksForDate(tasks, dateStr, context) ==
    {t \in tasks : t.date = dateStr /\ t.context = context}

\* tasks.some(t => t.title === recurringTask.title)
TitleExists(tasks, def, dateStr) ==
    \E t \in getTasksForDate(tasks, dateStr, def.context) : t.title = def.title

\* getDatesForRecurringTask(recurringTask, targetMonth) for a month offset
DatesIn(frequency, targetMonth) ==
    ExpandedDates[frequency, getFullYear(targetMonth), getMonth(targetMonth)]

DatesFor(def, tdy, monthOffset) ==
    DatesIn(def.frequency, TargetMonth(tdy, monthOffset))

\* only the past-date guard
SkippedWhenPast(tasks, def, dateStr, tdy) == IsPast(dateStr, tdy)

\* the past-date guard and the ledger guard, without the title guard
SkippedByDateOrLedger(tasks, def, dateStr, tdy) ==
    IsPast(dateStr, tdy) \/ AlreadyGenerated(def, dateStr)

\* the past-date guard and the title guard, without the ledger guard
SkippedByDateOrTitle(tasks, def, dateStr, tdy) ==
    IsPast(dateStr, tdy) \/ TitleExists(tasks, def, dateStr)

\* the candidate is skipped by one of the three guards
Skipped(tasks, def, dateStr, tdy) ==
    \/ IsPast(dateStr, tdy)
    \/ AlreadyGenerated(def, dateStr)
    \/ TitleExists(tasks, def, dateStr)

\* for (const dateStr of dates) from dateIndex on: the index of the first
\* candidate no guard skips, or 0
RECURSIVE ScanDates(_, _, _, _, _)
ScanDates(dates, dateIndex, tasks, def, tdy) ==
    IF dateIndex > Len(dates) THEN 0
    ELSE IF Skipped(tasks, def, dates[dateIndex], tdy)
    THEN ScanDates(dates, dateIndex + 1, tasks, def, tdy)
    ELSE dateIndex

\* The loops of generateRecurringTasks from position (monthOffset, index,
\* recurringTask, dateIndex) on, up to the next candidate that passes the
\* three guards; recurringTask = 0 means the loop over the array is about to
\* read element `index`.  Nothing is changed while candidates are skipped.
\* ScanFrom goes on from the result `hit` of the loop over one month's dates.
RECURSIVE Scan(_, _, _, _, _, _, _, _)
RECURSIVE ScanFrom(_, _, _, _, _, _, _, _)
\* the loops without the test of the active flag
ScanInactiveToo(arr, heap, tasks, tdy, monthOffset, index, cur, dateIndex) ==
    IF monthOffset >= 3
    THEN [found |-> FALSE, monthOffset |-> 3, index |-> 0,
          recurringTask |-> 0, dateIndex |-> 0]
    ELSE IF cur = 0
    THEN IF index > Len(arr)
         THEN Scan(arr, heap, tasks, tdy, monthOffset + 1, 1, 0, 0)
         ELSE Scan(arr, heap, tasks, tdy, monthOffset, index, arr[index], 1)
    ELSE ScanFrom(arr, heap, tasks, tdy, monthOffset, index, cur,
                  ScanDates(DatesFor(heap[cur], tdy, monthOffset), dateIndex,
                            tasks, heap[cur], tdy))

Scan(arr, heap, tasks, tdy, monthOffset, index, cur, dateIndex) ==
    IF monthOffset >= 3
    THEN [found |-> FALSE, monthOffset |-> 3, index |-> 0,
          recurringTask |-> 0, dateIndex |-> 0]
    ELSE IF cur = 0
    THEN IF index > Len(arr)
         THEN Scan(arr, heap, tasks, tdy, monthOffset + 1, 1, 0, 0)
         ELSE IF ~heap[arr[index]].active
         THEN Scan(arr, heap, tasks, tdy, monthOffset, index + 1, 0, 0)
         ELSE Scan(arr, heap, tasks, tdy, monthOffset, index, arr[index], 1)
    ELSE ScanFrom(arr, heap, tasks, tdy, monthOffset, index, cur,
                  ScanDates(DatesFor(heap[cur], tdy, monthOffset), dateIndex,
                            tasks, heap[cur], tdy))

ScanFrom(arr, heap, tasks, tdy, monthOffset, index, cur, hit) ==
    IF hit = 0
    THEN Scan(arr, heap, tasks, tdy, monthOffset, index + 1, 0, 0)
    ELSE [found |-> TRUE, monthOffset |-> monthOffset, index |-> index,
          recurringTask |-> cur, dateIndex |-> hit]

\* the candidate date at a position Scan found
CandidateDate(heap, tdy, pos) ==
    DatesFor(heap[pos.recurringTask], tdy, pos.monthOffset)[pos.dateIndex]

\* the task object built with the status of a hand-made task
NewInstanceStatusToday(id, def, dateStr, tdy) ==
    [id |-> id, date |-> dateStr, context |-> def.context, title |-> def.title,
     notes |-> "", status |-> "today", completed |-> FALSE,
     createdBy |-> def.id, floor |-> tdy]

\* the task object built for a candidate
NewInstance(id, def, dateStr, tdy) ==
    [id |-> id, date |-> dateStr, context |-> def.context, title |-> def.title,
     notes |-> "", status |-> def.status, completed |-> FALSE,
     createdBy |-> def.id, floor |-> tdy]

\* JSON.stringify(task) of a definition object, the body of a PUT
BodyOf(def) ==
    [id |-> def.id, title |-> def.title, context |-> def.context,
     status |-> def.status, frequency |-> def.frequency,
     active |-> def.active, generatedDates |-> def.generatedDates]

\* the await reached with the new instance built but not yet pushed
AtAwaitBeforePush(arr, heap, tasks, tdy, fresh, pos, task) ==
    IF pos.found
    THEN [tasks |-> tasks,
          nextId |-> fresh + 1,
          run |-> [pc |-> "create", today |-> tdy,
                   monthOffset |-> pos.monthOffset, index |-> pos.index,
                   recurringTask |-> pos.recurringTask,
                   dateIndex |-> pos.dateIndex, task |-> task,
                   body |-> NoBody]]
    ELSE [tasks |-> tasks,
          nextId |-> fresh,
          run |-> IF Len(arr) = 0 THEN NoRun
                  ELSE [NoRun EXCEPT !.pc = "update", !.today = tdy,
                                     !.monthOffset = 3, !.index = 1,
                                     !.body = BodyOf(heap[arr[1]])]]

\* A call has run on to position pos over the cache (arr, heap, tasks) and
\* reaches its next await: at a candidate it pushes the new instance `task`
\* into the cache and sends POST /api/tasks; when the loops are over it sends
\* the first PUT of the write-back, or (empty array) returns.  The result is
\* the cache's tasks, the next fresh id and the call's state at the await.
AtAwait(arr, heap, tasks, tdy, fresh, pos, task) ==
    IF pos.found
    THEN [tasks |-> tasks \cup {task},
          nextId |-> fresh + 1,
          run |-> [pc |-> "create", today |-> tdy,
                   monthOffset |-> pos.monthOffset, index |-> pos.index,
                   recurringTask |-> pos.recurringTask,
                   dateIndex |-> pos.dateIndex, task |-> task,
                   body |-> NoBody]]
    ELSE [tasks |-> tasks,
          nextId |-> fresh,
          run |-> IF Len(arr) = 0 THEN NoRun
                  ELSE [NoRun EXCEPT !.pc = "update", !.today = tdy,
                                     !.monthOffset = 3, !.index = 1,
                                     !.body = BodyOf(heap[arr[1]])]]

\* the new instance for the candidate at pos (fresh is its id)
InstanceAt(heap, tdy, fresh, pos) ==
    IF pos.found
    THEN NewInstance(fresh, heap[pos.recurringTask],
                     CandidateDate(heap, tdy, pos), tdy)
    ELSE NoTask

RunTo(arr, heap, tasks, tdy, fresh, pos) ==
    AtAwait(arr, heap, tasks, tdy, fresh, pos,
            InstanceAt(heap, tdy, fresh, pos))

\* A call runs on from position (monthOffset, index, cur, dateIndex) until
\* its next await; `fresh` is the next id generateId() gives.
RunOn(arr, heap, tasks, tdy, monthOffset, index, cur, dateIndex, fresh) ==
    RunTo(arr, heap, tasks, tdy, fresh,
          Scan(arr, heap, tasks, tdy, monthOffset, index, cur, dateIndex))

\* the definition objects still referenced by the array or by a call
Collect(heap, arr, slots) ==
    LET live == Range(arr) \cup {slots[k].recurringTask : k \in Slots}
    IN  [id \in (DOMAIN heap) \cap live |-> heap[id]]

\* recurringTask.generatedDates.push(dateStr), after the try/catch around
\* apiCreateTask (ok: the call returned without throwing)
MarkGenerated(def, dateStr, ok) ==
    [def EXCEPT !.generatedDates = Append(@, dateStr)]

\* an exception of apiCreateTask that ends the call
Rethrown(ok, go) == IF ok THEN go ELSE [go EXCEPT !.run = NoRun]

\* try { await apiCreateTask(task) } catch (error) { console.error(...) }:
\* whether or not the call threw, the function goes on as `go`
Caught(ok, go) == go

\* a failing API call uses up the failure budget
Outcome(ok) ==
    /\ ~ok => failures < MaxFailures
    /\ failures' = IF ok THEN failures ELSE failures + 1

FreeSlot(s) == CHOOSE k \in Slots : runs[s][k].pc = "idle" /\
                   \A j \in Slots : runs[s][j].pc = "idle" => k <= j

HasFreeSlot(s) == \E k \in Slots : runs[s][k].pc = "idle"

\* no generateRecurringTasks call of the session is in flight
Idle(s) == \A k \in Slots : runs[s][k].pc = "idle"

\* the user may act in session s now
MayAct(s) == overlap \/ Idle(s)

\* the call in `slot` of session s has reached the await `go`; slots are the
\* session's other calls
Await(s, slot, slots, go) ==
    /\ cachedTasks' = [cachedTasks EXCEPT ![s] = go.tasks]
    /\ nextId' = go.nextId
    /\ runs' = [runs EXCEPT ![s] = [slots EXCEPT ![slot] = go.run]]

----------------------------------------------------------------------------
(* Actions                                                                 *)

\* The state before any page is open: the tables as earlier use left them,
\* the caches as the script declares them.
InitOf(days, rows, definitions, users, overlapping) ==
    /\ today \in days
    /\ srvTasks = rows
    /\ srvRecurring \in definitions
    /\ page = [s \in Sessions |-> "closed"]
    /\ userOf = users
    /\ overlap = overlapping
    /\ currentContext = [s \in Sessions |-> "work"]
    /\ cachedTasks = [s \in Sessions |-> {}]
    /\ cachedRecurringTasks = [s \in Sessions |-> <<>>]
    /\ defObj = [s \in Sessions |-> <<>>]
    /\ runs = [s \in Sessions |-> [k \in Slots |-> NoRun]]
    /\ nextId = FirstFreeId
    /\ ops = 0 /\ ticks = 0 /\ failures = 0
    /\ lastEvent = NoEvent
    /\ cleanRun = [s \in Sessions |-> FALSE]
    /\ removed = FALSE
    /\ expandOf = NoExpansion
    /\ expanded = NoDates
    /\ deferredTo = NoDeferral

\* every page belongs to user 1, who waits for a call of
\* generateRecurringTasks to return before acting again
InitWith(days, definitions) ==
    InitOf(days, {}, definitions, [s \in Sessions |-> 1], FALSE)

Init == InitWith(Todays, InitialServerDefinitions)

\* the definition objects a GET /api/recurring-tasks response is parsed into
LoadedObjects(rows) ==
    [id \in {rows[n].id : n \in 1..Len(rows)} |->
        LET r == rows[CHOOSE n \in 1..Len(rows) : rows[n].id = id]
        IN  [id |-> r.id, title |-> r.title, context |-> r.context,
             status |-> r.status, frequency |-> r.frequency,
             active |-> r.active, generatedDates |-> r.generatedDates]]

\* The page is (re)loaded: initializeApp awaits loadAllData and then calls
\* generateRecurringTasks.  Calls of the page that was open before are gone.
\* (The window 'load' listener calls generateRecurringTasks too; here it
\* fires while loadAllData is still awaited, finds the empty array the script
\* starts with and returns without a request.)
InitializeApp(s, ok) ==
    /\ MayAct(s)
    /\ ops < MaxOps
    /\ ops' = ops + 1
    /\ Outcome(ok)
    /\ LET rows  == IF ok THEN GetRecurringTasks(srvRecurring, userOf[s])
                    ELSE <<>>
           arr   == [n \in 1..Len(rows) |-> rows[n].id]
           heap  == LoadedObjects(rows)
           tasks == IF ok THEN GetTasks(srvTasks, userOf[s]) ELSE {}
       IN  /\ cachedRecurringTasks' = [cachedRecurringTasks EXCEPT ![s] = arr]
           /\ defObj' = [defObj EXCEPT ![s] = heap]
           /\ Await(s, 1, [k \in Slots |-> NoRun],
                    RunOn(arr, heap, tasks, today, 0, 1, 0, 0, nextId))
    /\ page' = [page EXCEPT ![s] = "ready"]
    /\ currentContext' = [currentContext EXCEPT ![s] = "work"]
    /\ cleanRun' = [cleanRun EXCEPT ![s] = ok]
    /\ UNCHANGED removed
    /\ lastEvent' = [NoEvent EXCEPT !.type = "load", !.session = s, !.ok = ok]
    /\ UNCHANGED <<today, server, setup, ticks>>

\* addRecurringTask: the form's definition is pushed onto the cached array and
\* generateRecurringTasks is called (not awaited).
AddRecurringTask(s, input) ==
    /\ page[s] = "ready"
    /\ MayAct(s)
    /\ ops < MaxOps
    /\ HasFreeSlot(s)
    /\ ops' = ops + 1
    /\ LET task == [id |-> nextId, title |-> input.title,
                    context |-> input.context,
                    status |-> input.status, frequency |-> input.frequency,
                    active |-> TRUE, generatedDates |-> <<>>]
           arr  == Append(cachedRecurringTasks[s], nextId)
           heap == (nextId :> task) @@ defObj[s]
       IN  /\ cachedRecurringTasks' = [cachedRecurringTasks EXCEPT ![s] = arr]
           /\ defObj' = [defObj EXCEPT ![s] = heap]
           /\ Await(s, FreeSlot(s), runs[s],
                    RunOn(arr, heap, cachedTasks[s], today, 0, 1, 0, 0,
                          nextId + 1))
    /\ currentContext' = [currentContext EXCEPT ![s] = input.context]
    /\ cleanRun' = [cleanRun EXCEPT ![s] = TRUE]
    /\ UNCHANGED removed
    /\ lastEvent' = [NoEvent EXCEPT !.type = "add", !.session = s, !.id = nextId,
                                  !.title = input.title]
    /\ UNCHANGED <<today, server, page, setup, ticks, failures>>

\* a toggle that also empties the ledger
ToggledAndReset(heap, id) ==
    [heap EXCEPT ![id].active = ~heap[id].active, ![id].generatedDates = <<>>]

\* toggleRecurringTask on the list entry of definition id
ToggledObjects(heap, id) == [heap EXCEPT ![id].active = ~heap[id].active]

ToggleRecurringTask(s, id) ==
    /\ page[s] = "ready"
    /\ MayAct(s)
    /\ ops < MaxOps
    /\ includes(cachedRecurringTasks[s], id)
    /\ ops' = ops + 1
    /\ defObj' = [defObj EXCEPT ![s] = ToggledObjects(defObj[s], id)]
    /\ currentContext' = [currentContext EXCEPT ![s] = defObj[s][id].context]
    /\ cleanRun' = [cleanRun EXCEPT ![s] = FALSE]
    /\ UNCHANGED removed
    /\ lastEvent' = [NoEvent EXCEPT !.type = "toggle", !.session = s, !.id = id]
    /\ UNCHANGED <<today, server, page, setup, cachedTasks,
                   cachedRecurringTasks, runs, nextId, ticks, failures>>

\* deleteRecurringTask, the cache after the API call returned: the array
\* without the definition, and with deleteAll the tasks without its title
SplicedArray(arr, id) ==
    LET globalIndex == CHOOSE n \in 1..Len(arr) : arr[n] = id /\
                           \A m \in 1..Len(arr) : arr[m] = id => n <= m
    IN  RemoveAt(arr, globalIndex)

\* the filter applied whatever the dialog's answer
FilteredAlways(tasks, title, deleteAll) == {t \in tasks : t.title # title}

FilteredTasks(tasks, title, deleteAll) ==
    IF deleteAll THEN {t \in tasks : t.title # title} ELSE tasks

\* the statements after the await, run although the call threw
TryIgnoringFailure(ok, then, caught) == then

\* try { await apiDeleteRecurringTask(...); <then> } catch (error) { alert }:
\* the cache is updated only when the call returned
TryAwait(ok, then, caught) == IF ok THEN then ELSE caught

\* deleteRecurringTask on the list entry of definition id; deleteAll is the
\* answer to the confirm dialog, ok whether DELETE /api/recurring-tasks/:id
\* succeeded.
DeleteRecurringTask(s, id, deleteAll, ok) ==
    /\ page[s] = "ready"
    /\ MayAct(s)
    /\ ops < MaxOps
    /\ includes(cachedRecurringTasks[s], id)
    /\ ops' = ops + 1
    /\ Outcome(ok)
    /\ IF ok
       THEN /\ srvTasks' = DeleteRecurringInstances(srvTasks, srvRecurring,
                                                    userOf[s], id, deleteAll)
            /\ srvRecurring' = DeleteRecurringRow(srvRecurring, userOf[s], id)
       ELSE UNCHANGED server
    /\ cachedRecurringTasks' = [cachedRecurringTasks EXCEPT ![s] =
           TryAwait(ok, SplicedArray(cachedRecurringTasks[s], id),
                    cachedRecurringTasks[s])]
    /\ cachedTasks' = [cachedTasks EXCEPT ![s] =
           TryAwait(ok, FilteredTasks(cachedTasks[s], defObj[s][id].title,
                                      deleteAll),
                    cachedTasks[s])]
    /\ defObj' = [defObj EXCEPT ![s] =
           TryAwait(ok, Collect(defObj[s], cachedRecurringTasks'[s], runs[s]),
                    defObj[s])]
    /\ currentContext' = [currentContext EXCEPT ![s] = defObj[s][id].context]
    /\ cleanRun' = [cleanRun EXCEPT ![s] = FALSE]
    /\ removed' = (removed \/ (ok /\ deleteAll))
    /\ lastEvent' = [NoEvent EXCEPT
                        !.type = IF deleteAll THEN "deleteAll" ELSE "deleteOnly",
                        !.session = s, !.id = id, !.ok = ok,
                        !.title = defObj[s][id].title]
    /\ UNCHANGED <<today, page, setup, runs, nextId, ticks>>

\* addTask: a task made by hand on the selected date in the current context
AddTask(s, input, ok) ==
    /\ page[s] = "ready"
    /\ MayAct(s)
    /\ ops < MaxOps
    /\ ops' = ops + 1
    /\ Outcome(ok)
    /\ LET task == [id |-> nextId, date |-> input.date,
                    context |-> input.context,
                    title |-> input.title, notes |-> "", status |-> "today",
                    completed |-> FALSE, createdBy |-> 0, floor |-> 0]
       IN  /\ cachedTasks' = [cachedTasks EXCEPT ![s] = @ \cup {task}]
           /\ srvTasks' = IF ok THEN PostTask(srvTasks, userOf[s], task)
                          ELSE srvTasks
    /\ nextId' = nextId + 1
    /\ currentContext' = [currentContext EXCEPT ![s] = input.context]
    /\ cleanRun' = [cleanRun EXCEPT ![s] = FALSE]
    /\ UNCHANGED removed
    /\ lastEvent' = [NoEvent EXCEPT !.type = "addTask", !.session = s,
                                    !.ok = ok, !.title = input.title,
                                    !.date = input.date]
    /\ UNCHANGED <<today, srvRecurring, page, setup, cachedRecurringTasks,
                   defObj, runs, ticks>>

\* deleteTask: tasks.splice(index, 1) on the cached list only
DeleteTask(s, task) ==
    /\ page[s] = "ready"
    /\ MayAct(s)
    /\ ops < MaxOps
    /\ task \in cachedTasks[s]
    /\ ops' = ops + 1
    /\ cachedTasks' = [cachedTasks EXCEPT ![s] = @ \ {task}]
    /\ currentContext' = [currentContext EXCEPT ![s] = task.context]
    /\ cleanRun' = [cleanRun EXCEPT ![s] = FALSE]
    /\ UNCHANGED removed
    /\ lastEvent' = [NoEvent EXCEPT !.type = "deleteTask", !.session = s,
                                    !.id = task.id,
                                    !.title = task.title, !.date = task.date]
    /\ UNCHANGED <<today, server, page, setup, cachedRecurringTasks, defObj,
                   runs, nextId, ticks, failures>>

\* DELETE /api/tasks/all/clear
ClearedTasks(rows, user) == {r \in rows : r.user_id # user}

\* a route that leaves the definitions' rows as they are
RowsKept(rows, user) == rows

\* UPDATE recurring_tasks SET active = 0 WHERE user_id = ?
DeactivatedRows(rows, user) ==
    [n \in 1..Len(rows) |->
        IF rows[n].user_id = user THEN [rows[n] EXCEPT !.active = FALSE]
        ELSE rows[n]]

\* clearAllTasks with both confirmations accepted
ClearAllTasks(s, ok) ==
    /\ page[s] = "ready"
    /\ MayAct(s)
    /\ ops < MaxOps
    /\ ops' = ops + 1
    /\ Outcome(ok)
    /\ IF ok
       THEN /\ srvTasks' = ClearedTasks(srvTasks, userOf[s])
            /\ srvRecurring' = DeactivatedRows(srvRecurring, userOf[s])
            /\ cachedTasks' = [cachedTasks EXCEPT ![s] = {}]
            /\ defObj' = [defObj EXCEPT ![s] =
                   [id \in DOMAIN defObj[s] |->
                       IF includes(cachedRecurringTasks[s], id)
                       THEN [defObj[s][id] EXCEPT !.active = FALSE]
                       ELSE defObj[s][id]]]
       ELSE UNCHANGED <<server, cachedTasks, defObj>>
    /\ cleanRun' = [cleanRun EXCEPT ![s] = FALSE]
    /\ removed' = (removed \/ ok)
    /\ lastEvent' = [NoEvent EXCEPT !.type = "clear", !.session = s, !.ok = ok]
    /\ UNCHANGED <<today, page, setup, currentContext, cachedRecurringTasks,
                   runs, nextId, ticks>>

\* clearAllTasks with one of the two confirmations declined: it returns
ClearAllTasksDeclined(s) ==
    /\ page[s] = "ready"
    /\ MayAct(s)
    /\ ops < MaxOps
    /\ ops' = ops + 1
    /\ cleanRun' = [cleanRun EXCEPT ![s] = FALSE]
    /\ lastEvent' = [NoEvent EXCEPT !.type = "clearDeclined", !.session = s]
    /\ UNCHANGED <<today, server, page, setup, currentContext, cachedTasks,
                   cachedRecurringTasks, defObj, runs, nextId, ticks, failures,
                   removed>>

\* time passes: `days` midnights
Tick(days) ==
    /\ ticks < MaxTicks
    /\ overlap \/ \A s \in Sessions : Idle(s)
    /\ ticks' = ticks + 1
    /\ today' = today + days
    /\ cleanRun' = [s \in Sessions |-> FALSE]
    /\ UNCHANGED removed
    /\ lastEvent' = [NoEvent EXCEPT !.type = "tick"]
    /\ UNCHANGED <<server, page, setup, currentContext, cachedTasks,
                   cachedRecurringTasks, defObj, runs, nextId, ops, failures>>

\* The call in `slot` awaits apiCreateTask(task): the server handles POST
\* /api/tasks (ok) or the call throws (~ok); the call then marks the date as
\* generated and runs on to its next await.
CreateTaskResponse(s, slot, ok) ==
    LET run == runs[s][slot] IN
    /\ run.pc = "create"
    /\ Outcome(ok)
    /\ srvTasks' = IF ok THEN PostTask(srvTasks, userOf[s], run.task)
                   ELSE srvTasks
    /\ LET heap == [defObj[s] EXCEPT ![run.recurringTask] =
                       MarkGenerated(@, run.task.date, ok)]
       IN  /\ Await(s, slot, runs[s],
                    Caught(ok,
                        RunOn(cachedRecurringTasks[s], heap, cachedTasks[s],
                              run.today, run.monthOffset, run.index,
                              run.recurringTask, run.dateIndex + 1, nextId)))
           /\ defObj' = [defObj EXCEPT ![s] =
                  Collect(heap, cachedRecurringTasks[s], runs'[s])]
    /\ cleanRun' = [cleanRun EXCEPT ![s] = cleanRun[s] /\ ok]
    /\ UNCHANGED removed
    /\ lastEvent' = [NoEvent EXCEPT !.type = "created", !.session = s,
                                    !.id = run.recurringTask, !.ok = ok,
                                    !.title = run.task.title,
                                    !.date = run.task.date]
    /\ UNCHANGED <<today, srvRecurring, page, setup, currentContext,
                   cachedRecurringTasks, ops, ticks>>

\* The call in `slot` awaits apiUpdateRecurringTask(task.id, task) for element
\* `index` of the array: the server handles the PUT (ok) or the call throws;
\* the loop goes on to the next element, and after the last one the call
\* returns (saveRecurringTasks(recurring) stores the array it already is).
UpdateResponse(s, slot, ok) ==
    LET run == runs[s][slot]
        arr == cachedRecurringTasks[s]
    IN
    /\ run.pc = "update"
    /\ Outcome(ok)
    /\ srvRecurring' = IF ok THEN PutRecurringTask(srvRecurring, userOf[s],
                                                   run.body.id, run.body)
                       ELSE srvRecurring
    /\ runs' = [runs EXCEPT ![s][slot] =
           IF run.index + 1 > Len(arr) THEN NoRun
           ELSE [run EXCEPT !.index = run.index + 1,
                            !.body = BodyOf(defObj[s][arr[run.index + 1]])]]
    /\ cleanRun' = [cleanRun EXCEPT ![s] = cleanRun[s] /\ ok]
    /\ UNCHANGED removed
    /\ lastEvent' = [NoEvent EXCEPT !.type = "updated", !.session = s,
                                    !.id = run.body.id, !.ok = ok]
    /\ UNCHANGED <<today, srvTasks, page, setup, currentContext, cachedTasks,
                   cachedRecurringTasks, defObj, nextId, ops, ticks>>

SessionNext(s) ==
    \/ \E ok \in BOOLEAN : InitializeApp(s, ok)
    \/ \E input \in RecurringInputs : AddRecurringTask(s, input)
    \/ \E id \in DOMAIN defObj[s] : ToggleRecurringTask(s, id)
    \/ \E id \in DOMAIN defObj[s], deleteAll \in BOOLEAN, ok \in BOOLEAN :
           DeleteRecurringTask(s, id, deleteAll, ok)
    \/ \E input \in TaskInputs, ok \in BOOLEAN : AddTask(s, input, ok)
    \/ \E task \in cachedTasks[s] : DeleteTask(s, task)
    \/ \E ok \in BOOLEAN : ClearAllTasks(s, ok)
    \/ ClearAllTasksDeclined(s)
    \/ \E slot \in Slots, ok \in BOOLEAN : CreateTaskResponse(s, slot, ok)
    \/ \E slot \in Slots, ok \in BOOLEAN : UpdateResponse(s, slot, ok)

Next == SessionNext(1) \/ \E days \in DaySteps : Tick(days)

Spec == Init /\ [][Next]_vars

\* One stored, active definition of any frequency, a page that is loaded and
\* its call of generateRecurringTasks; "now" is drawn from days in the middle
\* and at the ends of months and years.
WindowTodays ==
    {DaysFromCivil(2025, 6, 14), DaysFromCivil(2025, 11, 29),
     DaysFromCivil(2025, 12, 31), DaysFromCivil(2024, 1, 31),
     DaysFromCivil(2025, 1, 1)}

WindowDefinitions ==
    {<<ServerRow(1, 1, "Standup", "work", "urgent", frequency)>> :
        frequency \in ModelFrequencies}

InitWindow == InitWith(WindowTodays, WindowDefinitions)

NextWindow ==
    \/ \E ok \in BOOLEAN : InitializeApp(1, ok)
    \/ \E slot \in Slots, ok \in BOOLEAN : CreateTaskResponse(1, slot, ok)
    \/ \E slot \in Slots, ok \in BOOLEAN : UpdateResponse(1, slot, ok)

SpecWindow == InitWindow /\ [][NextWindow]_vars

\* The expander on its own: getDatesForRecurringTask(task, targetMonth) for
\* any frequency, known, unknown, empty or missing, and a Date in any month of
\* the years below (with the century years 2000 and 2100), once per behaviour.
ExpandFrequencies == ModelFrequencies \cup {"", Undefined}
ExpandYears == (1999..2030) \cup {2100}
ExpandDays == {1, 28}

Expand(frequency, year, month, day) ==
    /\ expandOf = NoExpansion
    /\ expandOf' = [frequency |-> frequency, year |-> year, month |-> month,
                    day |-> day]
    /\ expanded' =
          IF ExpanderThrows(frequency)
          THEN [threw |-> TRUE, dates |-> <<>>]
          ELSE [threw |-> FALSE,
                dates |-> getDatesForRecurringTask(frequency,
                                                   NewDate(year, month, day))]
    /\ UNCHANGED <<today, server, page, userOf, overlap, currentContext,
                   cachedTasks, cachedRecurringTasks, defObj, runs, nextId,
                   budgets, lastEvent, cleanRun, removed, deferredTo>>

InitExpand == InitWith({DaysFromCivil(2025, 6, 14)}, {<<>>})

NextExpand ==
    \E frequency \in ExpandFrequencies, year \in ExpandYears,
       month \in 0..11, day \in ExpandDays :
        Expand(frequency, year, month, day)

SpecExpand == InitExpand /\ [][NextExpand]_vars

\* The page some time after its first load: the call of generateRecurringTasks
\* that initializeApp started on 2025-06-14 has created and stored the three
\* instances of the stored definition and has returned; its write-back has
\* reached the server, or has failed and left the stored ledger empty.  The
\* budgets count from here.
FirstRunLedger == <<<<2025, 6, 15>>, <<2025, 7, 15>>, <<2025, 8, 15>>>>

FirstRunRow == ServerRow(1, 1, "Standup", "work", "urgent", "monthly-15")

FirstRunObject ==
    [LoadedObjects(<<FirstRunRow>>)[1] EXCEPT !.generatedDates = FirstRunLedger]

FirstRunTasks ==
    {NewInstance(FirstFreeId + n - 1, FirstRunObject, FirstRunLedger[n],
                 DaysFromCivil(2025, 6, 14)) : n \in 1..Len(FirstRunLedger)}

InitAfterRun ==
    /\ today = DaysFromCivil(2025, 6, 14)
    /\ srvTasks = {TaskRow(1, t) : t \in FirstRunTasks}
    /\ srvRecurring \in
          {<<FirstRunRow>>,
           <<[FirstRunRow EXCEPT !.generatedDates = FirstRunLedger]>>}
    /\ page = [s \in Sessions |-> IF s = 1 THEN "ready" ELSE "closed"]
    /\ userOf = [s \in Sessions |-> 1]
    /\ overlap = FALSE
    /\ currentContext = [s \in Sessions |-> "work"]
    /\ cachedTasks = [s \in Sessions |-> IF s = 1 THEN FirstRunTasks ELSE {}]
    /\ cachedRecurringTasks = [s \in Sessions |-> IF s = 1 THEN <<1>> ELSE <<>>]
    /\ defObj = [s \in Sessions |->
                    IF s = 1 THEN (1 :> FirstRunObject) ELSE <<>>]
    /\ runs = [s \in Sessions |-> [k \in Slots |-> NoRun]]
    /\ nextId = FirstFreeId + Len(FirstRunLedger)
    /\ ops = 0 /\ ticks = 0 /\ failures = 0
    /\ lastEvent = NoEvent
    /\ cleanRun = [s \in Sessions |-> FALSE]
    /\ removed = FALSE
    /\ expandOf = NoExpansion
    /\ expanded = NoDates
    /\ deferredTo = NoDeferral

SpecAfterRun == InitAfterRun /\ [][Next]_vars

\* One page whose user does not wait: addRecurringTask starts a call of
\* generateRecurringTasks while earlier calls of the page are in flight, and
\* the answers to their requests arrive in any order.  No task is deleted.
InitOverlap ==
    InitOf({DaysFromCivil(2025, 6, 14)}, {}, InitialServerDefinitions,
           [s \in Sessions |-> 1], TRUE)

NextOverlap ==
    \/ \E ok \in BOOLEAN : InitializeApp(1, ok)
    \/ \E input \in RecurringInputs : AddRecurringTask(1, input)
    \/ \E slot \in Slots, ok \in BOOLEAN : CreateTaskResponse(1, slot, ok)
    \/ \E slot \in Slots, ok \in BOOLEAN : UpdateResponse(1, slot, ok)

SpecOverlap == InitOverlap /\ [][NextOverlap]_vars

\* One page whose user deletes stored definitions with all their instances
\* while a call of generateRecurringTasks may be in flight.  Definitions come
\* from the server only, and tasks from the calls only.
NextCascade ==
    \/ \E ok \in BOOLEAN : InitializeApp(1, ok)
    \/ \E id \in DOMAIN defObj[1], ok \in BOOLEAN :
           DeleteRecurringTask(1, id, TRUE, ok)
    \/ \E slot \in Slots, ok \in BOOLEAN : CreateTaskResponse(1, slot, ok)
    \/ \E slot \in Slots, ok \in BOOLEAN : UpdateResponse(1, slot, ok)

SpecCascade == InitOverlap /\ [][NextCascade]_vars

\* One page that may be closed and loaded again at any moment, also while its
\* call of generateRecurringTasks awaits an answer; the call ends with the
\* page, and what the server has stored by then stays.
NextInterrupted ==
    \/ \E ok \in BOOLEAN : InitializeApp(1, ok)
    \/ \E slot \in Slots, ok \in BOOLEAN : CreateTaskResponse(1, slot, ok)
    \/ \E slot \in Slots, ok \in BOOLEAN : UpdateResponse(1, slot, ok)
    \/ \E days \in DaySteps : Tick(days)

SpecInterrupted == InitOverlap /\ [][NextInterrupted]_vars

\* Two users on one server.  User 2 has a definition and tasks with the titles
\* user 1 uses; the definition's id is the one generateId() gives user 1's
\* page first, so that a definition user 1 adds has the id of user 2's row.
\* User 1 acts; user 2's page stays closed.
OtherUser == 2

OtherUserRow ==
    [ServerRow(FirstFreeId, OtherUser, "Standup", "work", "urgent",
               "monthly-15")
        EXCEPT !.generatedDates = <<<<2025, 6, 15>>>>]

OtherUserTasks ==
    { [id |-> 90, user_id |-> OtherUser, date |-> <<2025, 6, 15>>,
       context |-> "work", title |-> "Standup", notes |-> "",
       status |-> "urgent", completed |-> FALSE],
      [id |-> 91, user_id |-> OtherUser, date |-> <<2025, 6, 30>>,
       context |-> "personal", title |-> "Review", notes |-> "",
       status |-> "today", completed |-> FALSE] }

\* A request with the token of session s's user and the id of any stored task:
\* apiUpdateTask(id, body) or apiDeleteTask(id).  No handler of the page calls
\* them; the routes answer whoever holds a token.
ApiUpdateTask(s, id, input) ==
    /\ ops < MaxOps
    /\ ops' = ops + 1
    /\ srvTasks' = PutTask(srvTasks, userOf[s], id,
                           [date |-> input.date, context |-> input.context,
                            title |-> input.title, notes |-> "",
                            status |-> "today", completed |-> TRUE])
    /\ cleanRun' = [cleanRun EXCEPT ![s] = FALSE]
    /\ lastEvent' = [NoEvent EXCEPT !.type = "apiUpdateTask", !.session = s,
                                    !.id = id]
    /\ UNCHANGED <<today, srvRecurring, page, setup, currentContext,
                   cachedTasks, cachedRecurringTasks, defObj, runs, nextId,
                   ticks, failures, removed>>

ApiDeleteTask(s, id) ==
    /\ ops < MaxOps
    /\ ops' = ops + 1
    /\ srvTasks' = DeleteTaskRow(srvTasks, userOf[s], id)
    /\ cleanRun' = [cleanRun EXCEPT ![s] = FALSE]
    /\ lastEvent' = [NoEvent EXCEPT !.type = "apiDeleteTask", !.session = s,
                                    !.id = id]
    /\ UNCHANGED <<today, srvRecurring, page, setup, currentContext,
                   cachedTasks, cachedRecurringTasks, defObj, runs, nextId,
                   ticks, failures, removed>>

InitUsers ==
    InitOf({DaysFromCivil(2025, 6, 14)}, OtherUserTasks,
           { <<OtherUserRow>>,
             <<ServerRow(1, 1, "Standup", "work", "urgent", "monthly-15"),
               OtherUserRow>> },
           [s \in Sessions |-> s], FALSE)

NextUsers ==
    \/ Next
    \/ \E r \in srvTasks, input \in TaskInputs : ApiUpdateTask(1, r.id, input)
    \/ \E r \in srvTasks : ApiDeleteTask(1, r.id)

SpecUsers == InitUsers /\ [][NextUsers]_vars

\* The defer modal on its own: one quick option chosen on any day of three
\* stretches that hold every weekday, a leap day, and the ends of months and
\* of a year.
DeferTodays ==
    {DaysFromCivil(2024, 2, 20) + n : n \in 0..15}
      \cup {DaysFromCivil(2025, 6, 9) + n : n \in 0..6}
      \cup {DaysFromCivil(2025, 12, 22) + n : n \in 0..16}

DeferToQuickOption(option) ==
    /\ deferredTo = NoDeferral
    /\ deferredTo' = [option |-> option,
                      date |-> deferToQuickOption(option, today)]
    /\ UNCHANGED <<today, server, page, userOf, overlap, currentContext,
                   cachedTasks, cachedRecurringTasks, defObj, runs, nextId,
                   budgets, lastEvent, cleanRun, removed, expandOf, expanded>>

InitDefer == InitWith(DeferTodays, {<<>>})

NextDefer == \E option \in QuickOptions : DeferToQuickOption(option)

SpecDefer == InitDefer /\ [][NextDefer]_vars

\* Two pages of the same user, each loaded and running its call of
\* generateRecurringTasks while the other does.
NextSessions ==
    \E s \in Sessions :
        \/ \E ok \in BOOLEAN : InitializeApp(s, ok)
        \/ \E slot \in Slots, ok \in BOOLEAN : CreateTaskResponse(s, slot, ok)
        \/ \E slot \in Slots, ok \in BOOLEAN : UpdateResponse(s, slot, ok)

SpecSessions == Init /\ [][NextSessions]_vars

----------------------------------------------------------------------------
(* Properties                                                              *)

\* the ledger of definition object id in session s
Ledger(s, id) == defObj[s][id].generatedDates

\* the server's row of definition id of session s's user, if any
StoredRows(s, id) ==
    {n \in 1..Len(srvRecurring) :
        srvRecurring[n].id = id /\ srvRecurring[n].user_id = userOf[s]}

\* a call of session s is waiting for the answer to a POST /api/tasks
Creating(s) == \E k \in Slots : runs[s][k].pc = "create"

\* dates compared as year, month, day
DateLeq(a, b) ==
    \/ a[1] < b[1]
    \/ a[1] = b[1] /\ a[2] < b[2]
    \/ a[1] = b[1] /\ a[2] = b[2] /\ a[3] <= b[3]

\* C1: every instance a run has created is dated on or after that run's
\* today; no run backfills a date that lies before its today.
PastDateGuard ==
    \A s \in Sessions : \A t \in cachedTasks[s] :
        t.createdBy # 0 => parseDate(t.date) >= t.floor

\* a run has created an instance for a definition whose dates of the current
\* month include one before the run's today, and that date has no instance
PastDateSkipped ==
    \E t \in cachedTasks[1] :
        /\ t.createdBy \in DOMAIN defObj[1]
        /\ \E n \in 1..Len(DatesFor(defObj[1][t.createdBy], t.floor, 0)) :
              LET dateStr == DatesFor(defObj[1][t.createdBy], t.floor, 0)[n]
              IN  /\ parseDate(dateStr) < t.floor
                  /\ ~\E u \in cachedTasks[1] : u.date = dateStr
                  /\ ~\E r \in srvTasks : r.date = dateStr

\* the step that ended a run of session s has just been taken
RunJustFinished(s) ==
    /\ Idle(s)
    /\ lastEvent.session = s
    /\ lastEvent.type \in {"load", "add", "created", "updated"}

\* the server's tasks hold every instance the runs of the page created
InstancesStored ==
    \A t \in cachedTasks[1] :
        t.createdBy # 0 => \E r \in srvTasks : r.id = t.id

\* a definition without its ledger
Unledgered(def) == [def EXCEPT !.generatedDates = <<>>]

\* the step leaves the list of definitions as it is, ledgers aside
SameDefinitions ==
    /\ cachedRecurringTasks'[1] = cachedRecurringTasks[1]
    /\ \A id \in Range(cachedRecurringTasks[1]) :
          Unledgered(defObj'[1][id]) = Unledgered(defObj[1][id])

\* C2: a run that starts (on a page load) right after the previous run of the
\* page has finished, on the same day, over the same definitions and with the
\* first run's instances stored, creates no instance and adds no date to a
\* ledger: the cache holds what the server reports, the ledgers are the stored
\* ones, and no POST /api/tasks is sent.
ReconcileIdempotent ==
    [][(/\ RunJustFinished(1) /\ InstancesStored
        /\ lastEvent'.type = "load" /\ lastEvent'.ok
        /\ SameDefinitions)
         => /\ ~Creating(1)'
            /\ srvTasks' = srvTasks
            /\ cachedTasks'[1] = GetTasks(srvTasks, userOf[1])
            /\ \A id \in DOMAIN defObj'[1] :
                  \E n \in StoredRows(1, id) :
                      Ledger(1, id)' = srvRecurring[n].generatedDates]_vars

\* the second load of a page whose first run created and stored instances
SecondRunStarted ==
    /\ ops = 2 /\ ticks = 0
    /\ lastEvent.type = "load" /\ lastEvent.ok
    /\ srvTasks # {}
    /\ \E id \in DOMAIN defObj[1] :
          defObj[1][id].active /\ Ledger(1, id) # <<>>
    /\ ~Creating(1)

\* C3: the months today's month + k, k = 0, 1, 2, as (year, month index)
ExpectedMonths(tdy) ==
    {<<getFullYear(tdy) + (getMonth(tdy) + k) \div 12,
       (getMonth(tdy) + k) % 12>> : k \in 0..2}

\* the dates on or after today that the expander yields for those months
ExpectedWindow(frequency, tdy) ==
    {dateStr \in UNION {Range(ExpandedDates[frequency, ym[1], ym[2]]) :
                           ym \in ExpectedMonths(tdy)} :
        DateLeq(formatDate(tdy), dateStr)}

FailedCreationNotListed ==
    (lastEvent.type = "created" /\ ~lastEvent.ok
       /\ lastEvent.id \in DOMAIN defObj[lastEvent.session])
      => ~includes(Ledger(lastEvent.session, lastEvent.id), lastEvent.date)

\* C5: as long as no row of tasks has been deleted, every date in the ledger
\* of a definition of the client's list has a row in tasks with that date and
\* the definition's context and title.
LedgerBackedByStorage ==
    ~removed =>
        \A id \in Range(cachedRecurringTasks[1]) :
            \A n \in 1..Len(Ledger(1, id)) :
                \E r \in srvTasks :
                    /\ r.user_id = userOf[1]
                    /\ r.date = Ledger(1, id)[n]
                    /\ r.context = defObj[1][id].context
                    /\ r.title = defObj[1][id].title

\* C6: when a run has finished and every call of it succeeded, each definition
\* of the client's list has a row on the server with the same generatedDates
\* and active flag.
WriteBackReachesStorage ==
    (cleanRun[1] /\ Idle(1) /\ lastEvent.type = "updated")
      => \A id \in Range(cachedRecurringTasks[1]) :
            \E n \in StoredRows(1, id) :
                /\ srvRecurring[n].generatedDates = Ledger(1, id)
                /\ srvRecurring[n].active = defObj[1][id].active

\* definition id is neither in the client's list nor stored
Gone(id) == ~includes(cachedRecurringTasks[1], id) /\ StoredRows(1, id) = {}

\* the same after the step
GoneNext(id) ==
    /\ ~includes(cachedRecurringTasks'[1], id)
    /\ \A n \in 1..Len(srvRecurring') :
          ~(srvRecurring'[n].id = id /\ srvRecurring'[n].user_id = userOf[1])

\* C7: a successful delete with the cascade option removes the definition
\* and every task of the user with the definition's title, from the cache and
\* from the server, and leaves the tasks with other titles as they were.
CascadeDeleteComplete ==
    [][(lastEvent'.type = "deleteAll" /\ lastEvent'.ok)
         => /\ GoneNext(lastEvent'.id)
            /\ cachedTasks'[1] =
                   {t \in cachedTasks[1] : t.title # lastEvent'.title}
            /\ srvTasks' =
                   {r \in srvTasks : ~(r.user_id = userOf[1] /\
                                       r.title = lastEvent'.title)}]_vars

\* C8: a successful delete without the cascade option removes the definition
\* from the list and from the server and leaves every task as it was, in the
\* cache and on the server; a definition that is gone stays gone, and no task
\* is created for it afterwards.
DefinitionOnlyDelete ==
    [][/\ (lastEvent'.type = "deleteOnly" /\ lastEvent'.ok)
            => /\ GoneNext(lastEvent'.id)
               /\ cachedTasks' = cachedTasks
               /\ srvTasks' = srvTasks
               /\ \A id \in Range(cachedRecurringTasks'[1]) :
                     defObj'[1][id] = defObj[1][id]
       /\ \A id \in 1..(nextId - 1) :
             Gone(id) =>
                /\ GoneNext(id)
                /\ \A t \in cachedTasks'[1] \ cachedTasks[1] :
                      t.createdBy # id
                /\ \A r \in srvTasks' \ srvTasks :
                      \A t \in cachedTasks[1] :
                          t.id = r.id => t.createdBy # id]_vars

\* the definition just deleted leaves instances behind, cached and stored
InstancesOutliveDefinition ==
    /\ lastEvent.type = "deleteOnly" /\ lastEvent.ok
    /\ \E t \in cachedTasks[1] :
          t.title = lastEvent.title /\ t.createdBy = lastEvent.id
    /\ \E r \in srvTasks : r.title = lastEvent.title

\* C9: toggleRecurringTask flips the active flag of the selected definition
\* and changes nothing else: not its ledger, no other definition, no task in
\* the cache or on the server, no call in flight.
ToggleOnlyFlipsActive ==
    [][lastEvent'.type = "toggle"
         => /\ defObj'[1] =
                  [defObj[1] EXCEPT ![lastEvent'.id].active =
                                       ~defObj[1][lastEvent'.id].active]
            /\ cachedRecurringTasks' = cachedRecurringTasks
            /\ cachedTasks' = cachedTasks
            /\ srvTasks' = srvTasks
            /\ srvRecurring' = srvRecurring
            /\ runs' = runs]_vars

\* a definition with generated instances has just been switched off
ToggledOffWithInstances ==
    /\ lastEvent.type = "toggle"
    /\ ~defObj[1][lastEvent.id].active
    /\ Ledger(1, lastEvent.id) # <<>>
    /\ \E t \in cachedTasks[1] : t.createdBy = lastEvent.id

\* C10: right after a definition has been created or switched to active, a
\* run is in flight whenever the list holds a candidate that passes the
\* guards: creation and activation both start generateRecurringTasks.
ActivationStartsRun ==
    (/\ lastEvent.type \in {"add", "toggle"}
     /\ defObj[1][lastEvent.id].active
     /\ Scan(cachedRecurringTasks[1], defObj[1], cachedTasks[1], today,
             0, 1, 0, 0).found)
      => ~Idle(1)

\* C11: a run creates no task for a definition that is inactive, adds no date
\* to its ledger and leaves the tasks with its title as they are, in the cache
\* and (but for what the page load replaces) on the server.
InactiveSkipped ==
    [][\A id \in DOMAIN defObj'[1] :
          ~defObj'[1][id].active =>
             /\ \A k \in Slots :
                   runs'[1][k].pc = "create" => runs'[1][k].recurringTask # id
             /\ \A t \in cachedTasks'[1] \ cachedTasks[1] : t.createdBy # id
             /\ lastEvent'.type = "load" =>
                   /\ srvTasks' = srvTasks
                   /\ \A n \in StoredRows(1, id) :
                         Ledger(1, id)' = srvRecurring[n].generatedDates
             /\ (/\ lastEvent'.type \in {"add", "created", "updated"}
                 /\ id \in DOMAIN defObj[1]
                 /\ ~defObj[1][id].active) =>
                   /\ defObj'[1][id] = defObj[1][id]
                   /\ \A t \in cachedTasks[1] :
                         t.title = defObj[1][id].title => t \in cachedTasks'[1]
                   /\ \A r \in srvTasks :
                         r.title = defObj[1][id].title => r \in srvTasks']_vars

\* a run has finished that created instances for another definition and none
\* for an inactive one whose next date lies ahead
InactiveLeftAlone ==
    /\ lastEvent.type = "updated" /\ Idle(1)
    /\ \E t \in cachedTasks[1] : t.createdBy # 0
    /\ \E id \in Range(cachedRecurringTasks[1]) :
          /\ ~defObj[1][id].active
          /\ Ledger(1, id) = <<>>
          /\ \E n \in 1..Len(DatesFor(defObj[1][id], today, 1)) :
                LET dateStr == DatesFor(defObj[1][id], today, 1)[n]
                IN  /\ ~IsPast(dateStr, today)
                    /\ ~\E t \in cachedTasks[1] :
                          t.date = dateStr /\ t.title = defObj[1][id].title

\* C12: every task a run adds to the cache has the title, context and status
\* of its definition, empty notes, completed = false and a date the expander
\* gives for one of the run's three months, and lies in the list of (date,
\* definition's context); the row the server stores for it has the same
\* content.
InstanceContent ==
    [][/\ \A t \in cachedTasks'[1] \ cachedTasks[1] :
             t.createdBy # 0 =>
                LET def == defObj'[1][t.createdBy]
                IN  /\ t.title = def.title
                    /\ t.context = def.context
                    /\ t.status = def.status
                    /\ t.notes = "" /\ t.completed = FALSE
                    /\ \E k \in 0..2 : includes(DatesFor(def, t.floor, k), t.date)
                    /\ t \in getTasksForDate(cachedTasks'[1], t.date,
                                             def.context)
       /\ lastEvent'.type = "created" =>
             \A r \in srvTasks' \ srvTasks :
                 \E t \in cachedTasks[1] :
                     /\ t.createdBy = lastEvent'.id
                     /\ r = TaskRow(userOf[1], t)
                     /\ r.title = defObj'[1][t.createdBy].title
                     /\ r.context = defObj'[1][t.createdBy].context
                     /\ r.status = defObj'[1][t.createdBy].status
                     /\ r.date = lastEvent'.date]_vars

\* generated instances outside the context the UI shows, and with a status
\* other than that of a hand-made task
InstanceInOtherContext ==
    /\ \E t \in cachedTasks[1] :
          t.createdBy # 0 /\ t.context # currentContext[1]
    /\ \E t \in cachedTasks[1] : t.createdBy # 0 /\ t.status = "urgent"
    /\ \E r \in srvTasks : r.status = "urgent"

\* rows of one user for the same title on the same (date, context)
SameSlot(q, r) ==
    /\ q.user_id = r.user_id /\ q.date = r.date
    /\ q.context = r.context /\ q.title = r.title

\* C13: the server stores the task of every successful POST /api/tasks as a
\* new row, whatever rows it holds: a call that passed its guards on its own
\* page's cache adds a second row for a title on a (date, context) for which
\* another page's call has stored one.
DoubleCreatePossible ==
    [][(lastEvent'.type = "created" /\ lastEvent'.ok) =>
          /\ srvTasks \subseteq srvTasks'
          /\ Cardinality(srvTasks' \ srvTasks) = 1
          /\ \A r \in srvTasks' \ srvTasks :
                /\ r.title = lastEvent'.title /\ r.date = lastEvent'.date
                /\ \A q \in srvTasks : q.id # r.id]_vars

\* the server holds two instances with one title on one (date, context), one
\* created by each page's call
DuplicateInstances ==
    \E q \in srvTasks, r \in srvTasks :
        /\ q.id # r.id /\ SameSlot(q, r)
        /\ \E t \in cachedTasks[1] : t.id = q.id /\ t.createdBy # 0
        /\ \E t \in cachedTasks[2] : t.id = r.id /\ t.createdBy # 0

----------------------------------------------------------------------------
(* The expander against the calendar                                       *)

\* the Gregorian calendar, stated apart from the Date arithmetic above
IsLeapYear(year) ==
    (year % 4 = 0 /\ year % 100 # 0) \/ year % 400 = 0

\* month in 1..12
DaysInMonth(year, month) ==
    IF month = 2 THEN (IF IsLeapYear(year) THEN 29 ELSE 28)
    ELSE IF month \in {4, 6, 9, 11} THEN 30 ELSE 31

\* the weekday of a date string, 0 = Sunday .. 6 = Saturday
Weekday(dateStr) ==
    LET offsets == <<0, 3, 2, 5, 0, 3, 5, 1, 4, 6, 2, 4>>
        y == IF dateStr[2] < 3 THEN dateStr[1] - 1 ELSE dateStr[1]
    IN  (y + y \div 4 - y \div 100 + y \div 400 + offsets[dateStr[2]]
           + dateStr[3]) % 7

\* the expander was called with this frequency and did not throw
Expanded(frequency) == expandOf.frequency = frequency /\ ~expanded.threw

\* the d-th day of the month the expander was called for
DayOfTarget(d) == <<expandOf.year, expandOf.month + 1, d>>

\* C14: for 'everyday' the expander returns the days 1..daysInMonth of the
\* target month, each once, in ascending order, and nothing else.
EverydayExact ==
    expandOf.frequency = "everyday" =>
        /\ ~expanded.threw
        /\ expanded.dates =
              [d \in 1..DaysInMonth(expandOf.year, expandOf.month + 1) |->
                  DayOfTarget(d)]

\* 'everyday' expanded for the February of a leap year
EverydayLeapFebruary ==
    /\ Expanded("everyday")
    /\ expandOf.month = 1 /\ IsLeapYear(expandOf.year)
    /\ Len(expanded.dates) = 29

\* C15: for 'daily' every returned date is a Monday..Friday of the target
\* month, every Monday..Friday of the month is returned, and there are
\* between 20 and 23 dates.
DailyWeekdays ==
    expandOf.frequency = "daily" =>
        /\ ~expanded.threw
        /\ \A n \in 1..Len(expanded.dates) :
              /\ Weekday(expanded.dates[n]) \in 1..5
              /\ \E d \in 1..DaysInMonth(expandOf.year, expandOf.month + 1) :
                    expanded.dates[n] = DayOfTarget(d)
        /\ \A d \in 1..DaysInMonth(expandOf.year, expandOf.month + 1) :
              Weekday(DayOfTarget(d)) \in 1..5 =>
                  includes(expanded.dates, DayOfTarget(d))
        /\ Len(expanded.dates) \in 20..23

\* 'daily' expanded for a month with 23 working days
DailyLongMonth == Expanded("daily") /\ Len(expanded.dates) = 23

\* C16: for 'monthly-last' the expander returns one date, the last day of
\* the target month: 29 February 2024, 28 February 2025.
MonthlyLastDay ==
    expandOf.frequency = "monthly-last" =>
        /\ ~expanded.threw
        /\ expanded.dates =
              <<DayOfTarget(DaysInMonth(expandOf.year, expandOf.month + 1))>>
        /\ (expandOf.year = 2024 /\ expandOf.month = 1) =>
              expanded.dates = <<<<2024, 2, 29>>>>
        /\ (expandOf.year = 2025 /\ expandOf.month = 1) =>
              expanded.dates = <<<<2025, 2, 28>>>>

\* 'monthly-last' expanded for February 2024
LastOfFebruary2024 ==
    /\ Expanded("monthly-last")
    /\ expandOf.year = 2024 /\ expandOf.month = 1
    /\ expanded.dates[1][3] = 29

\* the weekday 'monthly-first-...' asks for
FirstWeekday(frequency) == IF frequency = "monthly-first-mon" THEN 1 ELSE 5

\* C17: for 'monthly-first-mon' and 'monthly-first-fri' the expander returns
\* one date, in days 1..7 of the target month, a Monday (a Friday), and no
\* earlier day of the month is one.
FirstWeekdayOfMonth ==
    expandOf.frequency \in {"monthly-first-mon", "monthly-first-fri"} =>
        /\ ~expanded.threw
        /\ Len(expanded.dates) = 1
        /\ \E d \in 1..7 :
              /\ expanded.dates[1] = DayOfTarget(d)
              /\ Weekday(DayOfTarget(d)) = FirstWeekday(expandOf.frequency)
              /\ \A e \in 1..(d - 1) :
                    Weekday(DayOfTarget(e)) # FirstWeekday(expandOf.frequency)

\* the first Monday of the month is its 7th day
FirstMondayOnTheSeventh ==
    /\ Expanded("monthly-first-mon")
    /\ Len(expanded.dates) = 1
    /\ expanded.dates[1][3] = 7

DeletedTaskStaysDeleted ==
    [][(lastEvent.type = "deleteTask"
          /\ lastEvent'.type = "load" /\ lastEvent'.ok)
         => \A t \in cachedTasks'[1] : t.id # lastEvent.id]_vars

\* the date string of the day after dateStr, by the calendar
DayAfter(dateStr) ==
    IF dateStr[3] < DaysInMonth(dateStr[1], dateStr[2])
    THEN <<dateStr[1], dateStr[2], dateStr[3] + 1>>
    ELSE IF dateStr[2] < 12 THEN <<dateStr[1], dateStr[2] + 1, 1>>
    ELSE <<dateStr[1] + 1, 1, 1>>

RECURSIVE DaysAfter(_, _)
\* the date string n days after dateStr
DaysAfter(dateStr, n) ==
    IF n = 0 THEN dateStr ELSE DaysAfter(DayAfter(dateStr), n - 1)

\* the first date strictly after dateStr that falls on weekday
FirstAfter(dateStr, weekday) ==
    DaysAfter(dateStr,
              CHOOSE n \in 1..7 : Weekday(DaysAfter(dateStr, n)) = weekday)

\* C21: whatever weekday today is, 'tomorrow' gives the day after today,
\* 'next-week' the first Monday strictly after today and 'end-week' the first
\* Friday strictly after today, each 1 to 7 days ahead (7 when today is that
\* weekday).
QuickOptionTargets ==
    LET now == formatDate(today)
    IN  /\ deferredTo.option = "tomorrow" => deferredTo.date = DayAfter(now)
        /\ deferredTo.option = "next-week" =>
              /\ deferredTo.date = FirstAfter(now, 1)
              /\ Weekday(now) = 1 => deferredTo.date = DaysAfter(now, 7)
        /\ deferredTo.option = "end-week" =>
              /\ deferredTo.date = FirstAfter(now, 5)
              /\ Weekday(now) = 5 => deferredTo.date = DaysAfter(now, 7)
        /\ deferredTo.option \in QuickOptions =>
              \E n \in 1..7 : deferredTo.date = DaysAfter(now, n)

\* 'next-week' chosen on Monday 2025-12-29 gives 2026-01-05
NextWeekChosenOnMonday ==
    /\ deferredTo.option = "next-week"
    /\ Weekday(formatDate(today)) = 1
    /\ formatDate(today) = <<2025, 12, 29>>
    /\ deferredTo.date = <<2026, 1, 5>>

\* tasks on one (date, context) with one title
SameList(t, u) ==
    t.date = u.date /\ t.context = u.context /\ t.title = u.title

\* C22: a call pushes an instance for a candidate only when the list of
\* (date, definition.context) holds no other task with the definition's title,
\* and a ledger gains a date only as the date of an instance a call pushed:
\* a candidate whose title is already on its list gets no instance and no
\* ledger entry.
DuplicateTitleGuard ==
    [][/\ \A k \in Slots :
             (runs'[1][k].pc = "create" /\ runs'[1][k] # runs[1][k]) =>
                /\ runs'[1][k].task \in cachedTasks'[1]
                /\ runs'[1][k].task.title =
                      defObj'[1][runs'[1][k].recurringTask].title
                /\ \A t \in cachedTasks'[1] \ {runs'[1][k].task} :
                      ~SameList(t, runs'[1][k].task)
       /\ lastEvent'.type # "load" =>
             \A id \in (DOMAIN defObj[1]) \cap (DOMAIN defObj'[1]) :
                defObj'[1][id].generatedDates # defObj[1][id].generatedDates =>
                   \E k \in Slots :
                      /\ runs[1][k].pc = "create"
                      /\ runs[1][k].recurringTask = id
                      /\ defObj'[1][id].generatedDates =
                            Append(defObj[1][id].generatedDates,
                                   runs[1][k].task.date)]_vars

\* a call has finished without a failure; it created instances for a
\* definition but none for a date in the window, not past, on which a task
\* made by hand has the definition's title, and the ledger lacks that date
SkippedForTitle ==
    /\ Idle(1) /\ cleanRun[1] /\ ticks = 0
    /\ \E id \in Range(cachedRecurringTasks[1]) :
          LET def == defObj[1][id] IN
          /\ def.active
          /\ def.generatedDates # <<>>
          /\ \E monthOffset \in 0..2 :
                \E n \in 1..Len(DatesFor(def, today, monthOffset)) :
                   LET dateStr == DatesFor(def, today, monthOffset)[n] IN
                   /\ ~IsPast(dateStr, today)
                   /\ ~AlreadyGenerated(def, dateStr)
                   /\ TitleExists(cachedTasks[1], def, dateStr)
                   /\ \A t \in getTasksForDate(cachedTasks[1], dateStr,
                                                def.context) :
                         t.createdBy = 0

Prefix(a, b) ==
    Len(a) <= Len(b) /\ \A n \in 1..Len(a) : a[n] = b[n]

\* no element twice
NoRepeat(seq) ==
    \A m \in 1..Len(seq), n \in 1..Len(seq) : seq[m] = seq[n] => m = n

PositionBefore(a, b) ==
    \/ a.monthOffset < b.monthOffset
    \/ a.monthOffset = b.monthOffset /\ a.index < b.index
    \/ /\ a.monthOffset = b.monthOffset /\ a.index = b.index
       /\ a.dateIndex < b.dateIndex

\* C25: a failed POST /api/tasks does not end the call: it goes on to a later
\* candidate or, when none is left, to the write-back, which starts at the
\* first definition only when no candidate of any definition and month
\* remains; a failed PUT does not end the write-back: the PUT for the next
\* definition of the list follows, and the call returns after the last one.
FailureIsolation ==
    [][\A k \in Slots :
          /\ (runs[1][k].pc = "create" /\ lastEvent'.type = "created"
                /\ ~lastEvent'.ok /\ runs'[1][k] # runs[1][k]) =>
                \/ /\ runs'[1][k].pc = "create"
                   /\ PositionBefore(runs[1][k], runs'[1][k])
                   /\ runs'[1][k].task \in cachedTasks'[1]
                \/ runs'[1][k].pc = "update"
          /\ (runs[1][k].pc = "create" /\ runs'[1][k].pc # "create") =>
                /\ runs'[1][k].pc = "update"
                /\ runs'[1][k].index = 1
                /\ runs'[1][k].body =
                      BodyOf(defObj'[1][cachedRecurringTasks'[1][1]])
                /\ ~Scan(cachedRecurringTasks'[1], defObj'[1], cachedTasks'[1],
                         runs[1][k].today, 0, 1, 0, 0).found
          /\ (runs[1][k].pc = "update" /\ lastEvent'.type = "updated"
                /\ runs'[1][k] # runs[1][k]) =>
                IF runs[1][k].index < Len(cachedRecurringTasks[1])
                THEN /\ runs'[1][k].pc = "update"
                     /\ runs'[1][k].index = runs[1][k].index + 1
                     /\ runs'[1][k].body =
                           BodyOf(defObj[1][cachedRecurringTasks[1]
                                                [runs[1][k].index + 1]])
                ELSE runs'[1][k] = NoRun]_vars

\* the POST for one candidate failed and the call went on: a later date of
\* the same definition has its instance stored, and the write-back has
\* reached the stored ledger, which holds both dates
WentOnAfterFailure ==
    /\ failures = 1 /\ Idle(1)
    /\ lastEvent.type = "updated" /\ lastEvent.ok
    /\ \E t \in cachedTasks[1], u \in cachedTasks[1] :
          /\ t.createdBy # 0 /\ u.createdBy = t.createdBy
          /\ ~DateLeq(u.date, t.date)
          /\ ~\E r \in srvTasks : r.id = t.id
          /\ \E r \in srvTasks : r.id = u.id
          /\ \E n \in 1..Len(srvRecurring) :
                /\ srvRecurring[n].id = t.createdBy
                /\ includes(srvRecurring[n].generatedDates, t.date)
                /\ includes(srvRecurring[n].generatedDates, u.date)

\* the PUT for the first definition of a list of two failed, and the PUT for
\* the second one has been answered
WriteBackWentOn ==
    /\ failures = 1
    /\ lastEvent.type = "updated" /\ lastEvent.ok
    /\ Len(cachedRecurringTasks[1]) = 2
    /\ lastEvent.id = cachedRecurringTasks[1][2]
    /\ defObj[1][cachedRecurringTasks[1][1]].generatedDates # <<>>
    /\ \A n \in 1..Len(srvRecurring) :
          srvRecurring[n].id = cachedRecurringTasks[1][1]
            => srvRecurring[n].generatedDates = <<>>

OverlapCreatesOnce ==
    /\ \A t \in cachedTasks[1], u \in cachedTasks[1] :
          (t.createdBy # 0 /\ u.createdBy # 0 /\ SameList(t, u)) => t = u
    /\ \A id \in DOMAIN defObj[1] : NoRepeat(defObj[1][id].generatedDates)

\* two calls have overlapped and both have returned: a ledger holds a later
\* date before an earlier one, which calls that run one after the other
\* never produce, and every instance the calls created is stored
OverlappedAndFinished ==
    /\ Idle(1) /\ failures = 0
    /\ lastEvent.type = "updated"
    /\ InstancesStored
    /\ \E id \in DOMAIN defObj[1] :
          \E m \in 1..Len(defObj[1][id].generatedDates),
             n \in 1..Len(defObj[1][id].generatedDates) :
             /\ m < n
             /\ ~DateLeq(defObj[1][id].generatedDates[m],
                         defObj[1][id].generatedDates[n])

\* the titles of the model's definitions
Titles == {input.title : input \in RecurringInputs}

\* a definition with this title is in the page's list or in the table
Defined(title) ==
    \/ \E id \in Range(cachedRecurringTasks[1]) : defObj[1][id].title = title
    \/ \E n \in 1..Len(srvRecurring) : srvRecurring[n].title = title

\* C28: once a cascade delete has succeeded and every call of
\* generateRecurringTasks of the page has returned, no task with the title of
\* a deleted definition is left in the cache or in the table, also when a call
\* was in flight during the delete.
CascadeLeavesNoInstance ==
    (removed /\ Idle(1)) =>
        \A title \in Titles :
            ~Defined(title) =>
               /\ \A t \in cachedTasks[1] : t.title # title
               /\ \A r \in srvTasks : r.title # title

\* C29: however often a call is cut off by the page being closed, between
\* the creation of instances and the write-back, the call of a page loaded
\* afterwards creates no instance for a title, date and context that the
\* table already holds: the table never has two such rows.
InterruptedRunRecovers ==
    \A q \in srvTasks, r \in srvTasks : SameSlot(q, r) => q = r

\* a call was cut off after its first instance was stored; the page was
\* loaded again and its call has returned without any failure: the table
\* holds the instance of a date that the stored ledger lacks, next to the
\* dates the second call created and wrote back
RecoveredAfterInterruption ==
    /\ Idle(1) /\ failures = 0 /\ ticks = 0
    /\ lastEvent.type = "updated" /\ lastEvent.ok
    /\ \E n \in 1..Len(srvRecurring) : \E r \in srvTasks :
          /\ srvRecurring[n].generatedDates # <<>>
          /\ r.title = srvRecurring[n].title
          /\ r.context = srvRecurring[n].context
          /\ ~includes(srvRecurring[n].generatedDates, r.date)
          /\ \E t \in cachedTasks[1] : t.id = r.id /\ t.createdBy = 0

\* the rows of a user
TasksOf(rows, user) == {r \in rows : r.user_id = user}

\* C30: whatever user 1's page does (loads, creations, write-backs, deletes
\* with and without cascade, clear-all), the tasks and definitions of user 2
\* stay as they are, also where titles or a definition's id coincide, and a
\* load gives user 1's page rows of user 1 only.
OtherUserUntouched ==
    [][/\ TasksOf(srvTasks', OtherUser) = TasksOf(srvTasks, OtherUser)
       /\ GetRecurringTasks(srvRecurring', OtherUser) =
             GetRecurringTasks(srvRecurring, OtherUser)
       /\ (lastEvent'.type = "load" /\ lastEvent'.ok) =>
             /\ \A t \in cachedTasks'[1] :
                   t.createdBy = 0 =>
                      \E r \in srvTasks : r.id = t.id /\ r.user_id = userOf[1]
             /\ \A id \in Range(cachedRecurringTasks'[1]) :
                   \E n \in 1..Len(srvRecurring) :
                      /\ srvRecurring[n].id = id
                      /\ srvRecurring[n].user_id = userOf[1]
                      /\ defObj'[1][id].generatedDates =
                            srvRecurring[n].generatedDates]_vars

\* user 1 has just deleted the stored definition 'Standup' with all its
\* instances, which a call had created: no task of user 1 has the title, and
\* user 2's task and definition with that title are in the tables
CascadeBesideOtherUser ==
    /\ lastEvent.type = "deleteAll" /\ lastEvent.ok
    /\ lastEvent.title = "Standup"
    /\ nextId > FirstFreeId
    /\ \A r \in TasksOf(srvTasks, 1) : r.title # "Standup"
    /\ \E r \in TasksOf(srvTasks, OtherUser) : r.title = "Standup"
    /\ OtherUserRow \in Range(srvRecurring)
    /\ \A n \in 1..Len(srvRecurring) : srvRecurring[n].user_id = OtherUser

====
